---- MODULE Spec2Model ----
(***************************************************************************)
(* FirebaseAuthClient (src/firebase_auth/client.py) with its request and   *)
(* response dataclasses (requests.py, responses.py).                       *)
(*                                                                         *)
(* One client, holding _api_key, is called from the execution contexts of  *)
(* Contexts.  A call runs the body of one of the five public methods: it   *)
(* formats the url, turns the request dataclass into a dict with           *)
(* dataclasses.asdict and hands both to _post_request, which blocks in     *)
(* client.post.  The call ends when the POST returns a JSON body, returns  *)
(* a body that is not JSON, or raises at transport level.                  *)
(*                                                                         *)
(* Python values: a str is a TLA+ string; a text produced by json.dumps is *)
(* a sequence of symbols (punctuation and the strings it quotes); a dict   *)
(* built by asdict is the sequence of its members in insertion order; a    *)
(* dict parsed from the response is a TLA+ record.                         *)
(*                                                                         *)
(* client.py imports SendPasswordResetEmailResponse,                       *)
(* VerifyPasswordResetCodeResponse and ConfirmPasswordResetResponse from   *)
(* responses.py, which defines none of them.  The model follows the method *)
(* bodies and lets the construction of a record whose class is missing     *)
(* raise ImportError; in Python the failure comes earlier, when the        *)
(* module client.py is first imported.                                     *)
(***************************************************************************)
EXTENDS Integers, Sequences, FiniteSets, TLC

VARIABLES api_key, pc, op, req, request_body, wire, response, result, calls, posts

vars == <<api_key, pc, op, req, request_body, wire, response, result, calls, posts>>

(* ------------------------------- bounds -------------------------------- *)

\* calls one context makes
MaxCalls == 2

\* length of the longest "errors" list of a provider response
MaxErrors == 2

Contexts == {"ctx1", "ctx2"}

ApiKeys == {"KEY", "KEY2"}

Emails == {"a@b.com", "c@d.org"}

Passwords == {"pw123456"}

OobCodes == {"abc"}

(* --------------------------- requests.py ------------------------------- *)

NoMetadata == {}

JsonKey(k) == {<<"json_key", k>>}

\* the dataclass fields of each request class, in declaration order
SignUpWithEmailAndPasswordRequest ==
    << [name |-> "email", type |-> "str", metadata |-> NoMetadata],
       [name |-> "password", type |-> "str", metadata |-> NoMetadata],
       [name |-> "return_secure_token", type |-> "bool",
        metadata |-> JsonKey("returnSecureToken")] >>

SignInWithEmailAndPasswordRequest ==
    << [name |-> "email", type |-> "str", metadata |-> NoMetadata],
       [name |-> "password", type |-> "str", metadata |-> NoMetadata],
       [name |-> "return_secure_token", type |-> "bool",
        metadata |-> JsonKey("returnSecureToken")] >>

SendPasswordResetEmailRequest ==
    << [name |-> "email", type |-> "str", metadata |-> NoMetadata] >>

VerifyPasswordResetCodeRequest ==
    << [name |-> "oob_code", type |-> "str", metadata |-> JsonKey("oobCode")] >>

ConfirmPasswordResetRequest ==
    << [name |-> "oob_code", type |-> "str", metadata |-> JsonKey("oobCode")],
       [name |-> "new_password", type |-> "str", metadata |-> JsonKey("newPassword")] >>

Operations ==
    {"sign_up_with_email_and_password", "sign_in_with_email_and_password",
     "send_password_reset_email", "verify_password_reset_code",
     "confirm_password_reset"}

\* the request class each method takes (its req parameter's annotation)
RequestClass(o) ==
    CASE o = "sign_up_with_email_and_password" -> SignUpWithEmailAndPasswordRequest
      [] o = "sign_in_with_email_and_password" -> SignInWithEmailAndPasswordRequest
      [] o = "send_password_reset_email" -> SendPasswordResetEmailRequest
      [] o = "verify_password_reset_code" -> VerifyPasswordResetCodeRequest
      [] o = "confirm_password_reset" -> ConfirmPasswordResetRequest

\* the instances a caller can build: every field is a required argument
SignUpRequests ==
    [email : Emails, password : Passwords, return_secure_token : {"True", "False"}]

SignInRequests ==
    [email : Emails, password : Passwords, return_secure_token : {"True", "False"}]

SendPasswordResetEmailRequests == [email : Emails]

VerifyPasswordResetCodeRequests == [oob_code : OobCodes]

ConfirmPasswordResetRequests == [oob_code : OobCodes, new_password : Passwords]

NoRequest == [none |-> "None"]

(* ------------------------ dataclasses.asdict --------------------------- *)

\* asdict(req): one member per dataclass field, keyed by the field's name, in
\* declaration order; the field's metadata is not consulted
AsDict(cls, r) ==
    [i \in 1..Len(cls) |-> [k |-> cls[i].name, t |-> cls[i].type, s |-> r[cls[i].name]]]

(* ------------------- json.dumps and httpx's json= ---------------------- *)

JsonDumpsValue(m) ==
    IF m.t = "bool"
    THEN << IF m.s = "True" THEN "true" ELSE "false" >>
    ELSE << "\"", m.s, "\"" >>

RECURSIVE JsonDumpsMembers(_)
JsonDumpsMembers(d) ==
    IF d = << >> THEN << >>
    ELSE << "\"", d[1].k, "\"", ": " >> \o JsonDumpsValue(d[1])
         \o (IF Len(d) > 1 THEN << ", " >> ELSE << >>)
         \o JsonDumpsMembers(Tail(d))

\* json.dumps(request_body): the text of a JSON object, a Python str
JsonDumps(d) == << "{" >> \o JsonDumpsMembers(d) \o << "}" >>

\* a str inside a JSON string literal: each quote is escaped
JsonEscape(text) == [i \in 1..Len(text) |-> IF text[i] = "\"" THEN "\\\"" ELSE text[i]]

\* client.post(json=x) with x a str: the content is x as one JSON string literal
HttpxJsonContent(text) == << "\"" >> \o JsonEscape(text) \o << "\"" >>

RequestHeaders == {<<"Content-Type", "application/json">>}

NoWire == [url |-> "", headers |-> {}, content |-> << >>]

(* --------------------------- responses.py ------------------------------ *)

FirebaseErrorItem == {"domain", "reason", "message"}

SignUpWithEmailAndPasswordResponse ==
    {"idToken", "email", "refreshToken", "expiresIn", "localId"}

SignInWithEmailAndPasswordResponse ==
    {"displayName", "email", "expiresIn", "idToken", "kind", "localId",
     "refreshToken", "registered"}

\* the names client.py imports from .responses that responses.py defines
DefinedResponseClasses ==
    [SignUpWithEmailAndPasswordResponse |-> SignUpWithEmailAndPasswordResponse,
     SignInWithEmailAndPasswordResponse |-> SignInWithEmailAndPasswordResponse]

\* the class each method builds its success record with
ResponseClass(o) ==
    CASE o = "sign_up_with_email_and_password" -> "SignUpWithEmailAndPasswordResponse"
      [] o = "sign_in_with_email_and_password" -> "SignInWithEmailAndPasswordResponse"
      [] o = "send_password_reset_email" -> "SendPasswordResetEmailResponse"
      [] o = "verify_password_reset_code" -> "VerifyPasswordResetCodeResponse"
      [] o = "confirm_password_reset" -> "ConfirmPasswordResetResponse"

(* ------------------------ results of a call ---------------------------- *)

EmptyDict == [k \in {} |-> ""]

None == [kind |-> "none", cls |-> "NoneType", value |-> EmptyDict]

Raised(exc) == [kind |-> "raised", cls |-> exc, value |-> EmptyDict]

Returned(cls, v) == [kind |-> "ok", cls |-> cls, value |-> v]

ReturnedError(v) == [kind |-> "error", cls |-> "FirebaseResponseError", value |-> v]

\* Cls(**response_body): a dataclass takes exactly its fields as keywords
Construct(cls, response_body) ==
    IF cls \notin DOMAIN DefinedResponseClasses THEN Raised("ImportError")
    ELSE IF DOMAIN response_body # DefinedResponseClasses[cls] THEN Raised("TypeError")
    ELSE Returned(cls, response_body)

(* ----------------------- provider responses ---------------------------- *)

ItemA == [domain |-> "global", reason |-> "invalid", message |-> "INVALID_PASSWORD"]

ItemB == [domain |-> "usageLimits", reason |-> "keyInvalid", message |-> "BAD_KEY"]

ErrorsOfLen(n) == [i \in 1..n |-> IF i % 2 = 1 THEN ItemA ELSE ItemB]

SignUpOk ==
    [idToken |-> "t", email |-> "a@b.com", refreshToken |-> "r",
     expiresIn |-> "3600", localId |-> "uid1"]

SignInOk ==
    [displayName |-> "", email |-> "a@b.com", expiresIn |-> "3600", idToken |-> "t",
     kind |-> "identitytoolkit#VerifyPasswordResponse", localId |-> "uid1",
     refreshToken |-> "r", registered |-> TRUE]

OobAck == [kind |-> "identitytoolkit#GetOobConfirmationCodeResponse", email |-> "a@b.com"]

ErrorResponses ==
    {[error |-> [code |-> 400, message |-> "INVALID_PASSWORD", errors |-> ErrorsOfLen(n)]] :
        n \in 0..MaxErrors}
    \cup {[error |-> [code |-> 400, message |-> "EMAIL_NOT_FOUND"]]}
    \cup {[idToken |-> "t", email |-> "a@b.com", refreshToken |-> "r",
           expiresIn |-> "3600", localId |-> "uid1",
           error |-> [code |-> 400, message |-> "EMAIL_EXISTS"]]}

MalformedErrorResponses ==
    {[error |-> [message |-> "INVALID_PASSWORD"]],
     [error |-> [code |-> 400, message |-> "INVALID_PASSWORD",
                 errors |-> << [domain |-> "global", reason |-> "invalid"] >>]]}

\* what r.json() can return
JsonResponses == ErrorResponses \cup MalformedErrorResponses \cup {SignUpOk, SignInOk, OobAck}

NoResponse == [kind |-> "none", data |-> EmptyDict]

(* --------------------------- client.py --------------------------------- *)

ParseResponseReversed(response_data) ==
    IF "error" \notin DOMAIN response_data THEN None
    ELSE LET e == response_data["error"]
             items == IF "errors" \in DOMAIN e THEN e["errors"] ELSE << >>
         IN  IF \E i \in 1..Len(items) : DOMAIN items[i] # FirebaseErrorItem
             THEN Raised("TypeError")
             ELSE IF "code" \notin DOMAIN e \/ "message" \notin DOMAIN e
             THEN Raised("KeyError")
             ELSE ReturnedError(
                    [error |->
                        [errors |-> [i \in 1..Len(items) |->
                                        [domain |-> items[Len(items) + 1 - i]["domain"],
                                         reason |-> items[Len(items) + 1 - i]["reason"],
                                         message |-> items[Len(items) + 1 - i]["message"]]],
                         code |-> e["code"],
                         message |-> e["message"]]])

\* _parse_response: None without an "error" key, else the error record
ParseResponse(response_data) ==
    IF "error" \notin DOMAIN response_data THEN None
    ELSE LET e == response_data["error"]
             items == IF "errors" \in DOMAIN e THEN e["errors"] ELSE << >>
         IN  IF \E i \in 1..Len(items) : DOMAIN items[i] # FirebaseErrorItem
             THEN Raised("TypeError")
             ELSE IF "code" \notin DOMAIN e \/ "message" \notin DOMAIN e
             THEN Raised("KeyError")
             ELSE ReturnedError(
                    [error |->
                        [errors |-> [i \in 1..Len(items) |->
                                        [domain |-> items[i]["domain"],
                                         reason |-> items[i]["reason"],
                                         message |-> items[i]["message"]]],
                         code |-> e["code"],
                         message |-> e["message"]]])

\* the f-strings of the five methods
SignUpUrl(k) == "https://identitytoolkit.googleapis.com/v1/accounts:signUp?key=" \o k

SignInUrlWrongSuffix(k) == "https://identitytoolkit.googleapis.com/v1/accounts:signUp?key=" \o k

SignInUrl(k) == "https://identitytoolkit.googleapis.com/v1/accounts:signInWithPassword?key=" \o k

SendPasswordResetEmailUrl(k) ==
    "https://identitytoolkit.googleapis.com/v1/accounts:sendOobCode?key=" \o k

VerifyPasswordResetCodeUrl(k) ==
    "https://identitytoolkit.googleapis.com/v1/accounts:resetPassword?key=" \o k

ConfirmPasswordResetUrl(k) ==
    "https://identitytoolkit.googleapis.com/v1/accounts:resetPassword?key=" \o k

\* __init__: the key is stored; no call has been made
Init ==
    /\ api_key \in ApiKeys
    /\ pc = [c \in Contexts |-> "idle"]
    /\ op = [c \in Contexts |-> "none"]
    /\ req = [c \in Contexts |-> NoRequest]
    /\ request_body = [c \in Contexts |-> << >>]
    /\ wire = [c \in Contexts |-> NoWire]
    /\ response = [c \in Contexts |-> NoResponse]
    /\ result = [c \in Contexts |-> None]
    /\ calls = [c \in Contexts |-> 0]
    /\ posts = [c \in Contexts |-> 0]

\* a cache in front of the POST: a request equal to one already sent is not sent
PostRequestDeduplicated(c, url, body) ==
    /\ request_body' = [request_body EXCEPT ![c] = body]
    /\ IF \E d \in Contexts : wire[d].url = url
                              /\ wire[d].content = HttpxJsonContent(JsonDumps(body))
       THEN /\ wire' = wire
            /\ posts' = posts
       ELSE /\ wire' = [wire EXCEPT ![c] = [url |-> url, headers |-> RequestHeaders,
                                            content |-> HttpxJsonContent(JsonDumps(body))]]
            /\ posts' = [posts EXCEPT ![c] = @ + 1]

\* one request buffer shared by every call of the client
PostRequestSharedBuffer(c, url, body) ==
    /\ request_body' = [request_body EXCEPT ![c] = body]
    /\ wire' = [d \in Contexts |-> [url |-> url, headers |-> RequestHeaders,
                                    content |-> HttpxJsonContent(JsonDumps(body))]]
    /\ posts' = [posts EXCEPT ![c] = @ + 1]

\* _post_request up to client.post: one POST of json=json.dumps(request_body)
PostRequest(c, url, body) ==
    /\ request_body' = [request_body EXCEPT ![c] = body]
    /\ wire' = [wire EXCEPT ![c] = [url |-> url, headers |-> RequestHeaders,
                                    content |-> HttpxJsonContent(JsonDumps(body))]]
    /\ posts' = [posts EXCEPT ![c] = @ + 1]

\* a method is entered: url, asdict(req), _post_request
Enter(c, o, r, url) ==
    /\ pc[c] # "posted"
    /\ calls[c] < MaxCalls
    /\ pc' = [pc EXCEPT ![c] = "posted"]
    /\ op' = [op EXCEPT ![c] = o]
    /\ req' = [req EXCEPT ![c] = r]
    /\ calls' = [calls EXCEPT ![c] = @ + 1]
    /\ PostRequest(c, url, AsDict(RequestClass(o), r))
    /\ response' = [response EXCEPT ![c] = NoResponse]
    /\ result' = [result EXCEPT ![c] = None]
    /\ UNCHANGED api_key

sign_up_with_email_and_password(c) ==
    \E r \in SignUpRequests :
        Enter(c, "sign_up_with_email_and_password", r, SignUpUrl(api_key))

sign_in_with_email_and_password(c) ==
    \E r \in SignInRequests :
        Enter(c, "sign_in_with_email_and_password", r, SignInUrl(api_key))

send_password_reset_email(c) ==
    \E r \in SendPasswordResetEmailRequests :
        Enter(c, "send_password_reset_email", r, SendPasswordResetEmailUrl(api_key))

verify_password_reset_code(c) ==
    \E r \in VerifyPasswordResetCodeRequests :
        Enter(c, "verify_password_reset_code", r, VerifyPasswordResetCodeUrl(api_key))

confirm_password_reset(c) ==
    \E r \in ConfirmPasswordResetRequests :
        Enter(c, "confirm_password_reset", r, ConfirmPasswordResetUrl(api_key))

\* the rest of a method once _post_request has returned response_body
Classify(o, response_body) ==
    LET err == ParseResponse(response_body)
    IN  IF err # None THEN err ELSE Construct(ResponseClass(o), response_body)

\* client.post returns and r.json() parses the body
PostReturnsJson(c) ==
    \E data \in JsonResponses :
        /\ pc[c] = "posted"
        /\ pc' = [pc EXCEPT ![c] = "done"]
        /\ response' = [response EXCEPT ![c] = [kind |-> "json", data |-> data]]
        /\ result' = [result EXCEPT ![c] = Classify(op[c], data)]
        /\ UNCHANGED <<api_key, op, req, request_body, wire, calls, posts>>

\* the failure is caught and the POST is sent again
PropagateRetried(c, kind, exc) ==
    /\ pc[c] = "posted"
    /\ pc' = [pc EXCEPT ![c] = "done"]
    /\ response' = [response EXCEPT ![c] = [kind |-> kind, data |-> EmptyDict]]
    /\ result' = [result EXCEPT ![c] = Raised(exc)]
    /\ posts' = [posts EXCEPT ![c] = @ + 1]
    /\ UNCHANGED <<api_key, op, req, request_body, wire, calls>>

\* an exception raised inside _post_request leaves the method uncaught
Propagate(c, kind, exc) ==
    /\ pc[c] = "posted"
    /\ pc' = [pc EXCEPT ![c] = "done"]
    /\ response' = [response EXCEPT ![c] = [kind |-> kind, data |-> EmptyDict]]
    /\ result' = [result EXCEPT ![c] = Raised(exc)]
    /\ UNCHANGED <<api_key, op, req, request_body, wire, calls, posts>>

\* client.post raises (DNS, TLS, connection refused)
PostRaisesTransportError(c) == Propagate(c, "transport_error", "TransportError")

\* client.post returns and r.json() raises on a body that is not JSON
ResponseIsNotJson(c) == Propagate(c, "not_json", "JSONDecodeError")

Next ==
    \E c \in Contexts :
        \/ sign_up_with_email_and_password(c)
        \/ sign_in_with_email_and_password(c)
        \/ send_password_reset_email(c)
        \/ verify_password_reset_code(c)
        \/ confirm_password_reset(c)
        \/ PostReturnsJson(c)
        \/ PostRaisesTransportError(c)
        \/ ResponseIsNotJson(c)

Spec == Init /\ [][Next]_vars

(* ------------------------------ claims --------------------------------- *)

HasMember(d, k, t, s) == \E i \in 1..Len(d) : d[i] = [k |-> k, t |-> t, s |-> s]

HasKey(d, k) == \E i \in 1..Len(d) : d[i].k = k

Keys(d) == {d[i].k : i \in 1..Len(d)}

Called(c) == pc[c] # "idle"

\* C1: the request body sign-up and sign-in hand to the POST holds
\* "returnSecureToken": true and the given email and password, whatever the
\* caller put in the request record.
C1_SecureTokenAndCredentials ==
    \A c \in Contexts :
        (Called(c) /\ op[c] \in {"sign_up_with_email_and_password",
                                 "sign_in_with_email_and_password"})
        => /\ HasMember(request_body[c], "returnSecureToken", "bool", "True")
           /\ HasMember(request_body[c], "email", "str", req[c].email)
           /\ HasMember(request_body[c], "password", "str", req[c].password)

\* C2: every field that declares an external JSON key is sent under that key
\* and not under its internal name; verify_password_reset_code with
\* oob_code = c sends exactly {"oobCode": c}.
C2_ExternalKeys ==
    \A c \in Contexts :
        Called(c)
        => /\ \A i \in 1..Len(RequestClass(op[c])) :
                LET f == RequestClass(op[c])[i]
                IN  \A md \in f.metadata :
                        md[1] = "json_key"
                        => /\ HasMember(request_body[c], md[2], f.type, req[c][f.name])
                           /\ (md[2] # f.name => ~HasKey(request_body[c], f.name))
           /\ (op[c] = "verify_password_reset_code"
               => request_body[c] = << [k |-> "oobCode", t |-> "str", s |-> req[c].oob_code] >>)
           /\ (op[c] = "confirm_password_reset"
               => Keys(request_body[c]) = {"oobCode", "newPassword"})

\* C3: the request body send_password_reset_email hands to the POST holds
\* requestType = "PASSWORD_RESET" next to the given email.
C3_RequestTypePasswordReset ==
    \A c \in Contexts :
        (Called(c) /\ op[c] = "send_password_reset_email")
        => /\ HasMember(request_body[c], "requestType", "str", "PASSWORD_RESET")
           /\ HasMember(request_body[c], "email", "str", req[c].email)

GotJson(c) == pc[c] = "done" /\ response[c].kind = "json"

HasError(data) == "error" \in DOMAIN data

\* an "error" value carrying code, message and an optional list of items
CarriesError(data) ==
    /\ HasError(data)
    /\ {"code", "message"} \subseteq DOMAIN data.error
    /\ "errors" \in DOMAIN data.error
       => \A i \in 1..Len(data.error.errors) :
            DOMAIN data.error.errors[i] = {"domain", "reason", "message"}

\* C4: a response with a top-level "error" carrying code, message and an
\* optional errors list gives an error record with the same code, message and
\* items in the same order, and no items when the response has no "errors"
\* key, whichever operation received it.
C4_ErrorRecordMirrorsResponse ==
    \A c \in Contexts :
        (GotJson(c) /\ CarriesError(response[c].data))
        => LET e == response[c].data.error
           IN  /\ result[c].kind = "error"
               /\ result[c].cls = "FirebaseResponseError"
               /\ DOMAIN result[c].value = {"error"}
               /\ DOMAIN result[c].value.error = {"errors", "code", "message"}
               /\ result[c].value.error.code = e.code
               /\ result[c].value.error.message = e.message
               /\ result[c].value.error.errors
                    = (IF "errors" \in DOMAIN e THEN e.errors ELSE << >>)

\* C4 acts: one operation got two items and mirrors them, another operation
\* got an error without "errors" and returns no items
C4_Witness ==
    \E c, d \in Contexts :
        /\ GotJson(c) /\ op[c] = "confirm_password_reset"
        /\ CarriesError(response[c].data)
        /\ "errors" \in DOMAIN response[c].data.error
        /\ Len(response[c].data.error.errors) >= 2
        /\ result[c].kind = "error"
        /\ result[c].value.error.errors[1] # result[c].value.error.errors[2]
        /\ GotJson(d) /\ op[d] = "sign_in_with_email_and_password"
        /\ CarriesError(response[d].data)
        /\ "errors" \notin DOMAIN response[d].data.error
        /\ result[d].kind = "error"
        /\ result[d].value.error.errors = << >>

\* the success fields of section 4.1; the last three are provider-defined
SuccessShaped(o, data) ==
    CASE o = "sign_up_with_email_and_password" ->
            DOMAIN data = {"idToken", "email", "refreshToken", "expiresIn", "localId"}
      [] o = "sign_in_with_email_and_password" ->
            DOMAIN data = {"displayName", "email", "expiresIn", "idToken", "kind",
                           "localId", "refreshToken", "registered"}
      [] OTHER -> DOMAIN data = {"kind", "email"}

\* C5: each of the five operations returns the shared error record exactly
\* when the parsed response has a top-level "error" key, and otherwise its own
\* success record holding every field of the parsed response.
C5_ErrorOrSuccessRecord ==
    \A c \in Contexts :
        (GotJson(c) /\ (CarriesError(response[c].data)
                        \/ (~HasError(response[c].data)
                            /\ SuccessShaped(op[c], response[c].data))))
        => /\ result[c].kind \in {"error", "ok"}
           /\ result[c].kind = "error" <=> HasError(response[c].data)
           /\ ~HasError(response[c].data)
              => /\ result[c].cls = ResponseClass(op[c])
                 /\ result[c].value = response[c].data

\* C6: every call issues exactly one POST and returns only after the round
\* trip: in each context the POSTs issued equal the calls made, a call in
\* flight has no result, and a finished call has its response and result.
C6_OnePostPerCall ==
    \A c \in Contexts :
        /\ posts[c] = calls[c]
        /\ pc[c] = "idle" => posts[c] = 0
        /\ pc[c] = "posted" => (result[c] = None /\ response[c] = NoResponse
                                /\ wire[c] # NoWire)
        /\ pc[c] = "done" => (result[c] # None /\ response[c] # NoResponse)

\* C6 acts: send_password_reset_email was called with one email in both
\* contexts, one of them for the second time, and every call was posted
C6_Witness ==
    \E c, d \in Contexts :
        /\ c # d
        /\ op[c] = "send_password_reset_email" /\ op[d] = "send_password_reset_email"
        /\ Called(c) /\ Called(d)
        /\ req[c].email = req[d].email
        /\ wire[c] = wire[d]
        /\ calls[c] = 2 /\ posts[c] = 2 /\ posts[d] >= 1

PathSuffix(o) ==
    CASE o = "sign_up_with_email_and_password" -> "accounts:signUp"
      [] o = "sign_in_with_email_and_password" -> "accounts:signInWithPassword"
      [] o = "send_password_reset_email" -> "accounts:sendOobCode"
      [] o = "verify_password_reset_code" -> "accounts:resetPassword"
      [] o = "confirm_password_reset" -> "accounts:resetPassword"

\* C7: each operation posts to https://identitytoolkit.googleapis.com/v1/
\* followed by its own path suffix and key=k, k the key given at construction.
C7_UrlOfOperation ==
    \A c \in Contexts :
        Called(c)
        => wire[c].url = "https://identitytoolkit.googleapis.com/v1/"
                         \o PathSuffix(op[c]) \o "?key=" \o api_key

\* C7 acts: sign-in and verify are in flight on a client built with KEY2
C7_Witness ==
    \E c, d \in Contexts :
        /\ api_key = "KEY2"
        /\ pc[c] = "posted" /\ op[c] = "sign_in_with_email_and_password"
        /\ pc[d] = "posted" /\ op[d] = "verify_password_reset_code"
        /\ wire[c].url # wire[d].url

Failed(c) == pc[c] = "done" /\ response[c].kind \in {"transport_error", "not_json"}

\* C8: when the POST fails at transport level or the body is not JSON, the
\* operation returns neither a success record nor the error record: the
\* failure reaches the caller as raised, after exactly one attempt.
C8_FailurePropagates ==
    \A c \in Contexts :
        Failed(c)
        => /\ result[c].kind = "raised"
           /\ result[c].cls = (IF response[c].kind = "transport_error"
                               THEN "TransportError" ELSE "JSONDecodeError")
           /\ posts[c] = calls[c]

\* C8 acts: one call failed at transport level and another got a body that
\* is not JSON, each after its second call
C8_Witness ==
    \E c, d \in Contexts :
        /\ Failed(c) /\ response[c].kind = "transport_error" /\ calls[c] = 2
        /\ Failed(d) /\ response[d].kind = "not_json"
        /\ result[c].kind = "raised" /\ result[d].kind = "raised"

\* what a JSON decoder makes of a text: an object or a string
JsonKind(text) ==
    IF text = << >> THEN "none"
    ELSE IF text[1] = "{" THEN "object"
    ELSE IF text[1] = "\"" THEN "string"
    ELSE "other"

\* the member names of the text of a flat JSON object
ObjectKeys(text) ==
    {text[i] : i \in {j \in 2..(Len(text) - 2) :
                        /\ text[j - 1] = "\""
                        /\ text[j + 1] = "\""
                        /\ text[j + 2] \in {":", ": "}}}

\* C9: the HTTP body is the JSON object of the payload, serialized once:
\* decoding it yields an object with the payload's keys, and the header
\* Content-Type: application/json is sent.
C9_BodyIsJsonObject ==
    \A c \in Contexts :
        Called(c)
        => /\ <<"Content-Type", "application/json">> \in wire[c].headers
           /\ JsonKind(wire[c].content) = "object"
           /\ ObjectKeys(wire[c].content) = Keys(request_body[c])

\* a call's url, payload and result follow from its own request and response
OwnRequestAndResponseOnly ==
    \A c, d \in Contexts :
        (Called(c) /\ Called(d) /\ op[c] = op[d] /\ req[c] = req[d])
        => /\ wire[c] = wire[d]
           /\ request_body[c] = request_body[d]
           /\ (pc[c] = "done" /\ pc[d] = "done" /\ response[c] = response[d])
              => result[c] = result[d]

\* a step of one context leaves the key and the other contexts' calls alone
StepLeavesOthersAlone ==
    /\ api_key' = api_key
    /\ \A d \in Contexts :
        (pc'[d] = pc[d] /\ calls'[d] = calls[d])
        => /\ wire'[d] = wire[d]
           /\ request_body'[d] = request_body[d]
           /\ response'[d] = response[d]
           /\ result'[d] = result[d]

\* C10: the API key is set at construction and no operation changes it; with
\* calls interleaved, each call's url, payload and result depend only on its
\* own request and response, never on another call in flight.
C10_NoCrossCallState == []OwnRequestAndResponseOnly /\ [][StepLeavesOthersAlone]_vars

\* C10 acts: two different calls are interleaved, one finished with a
\* failure while the other, started earlier or later, is still in flight
C10_Witness ==
    \E c, d \in Contexts :
        /\ pc[c] = "done" /\ result[c].kind = "raised" /\ calls[c] = 2
        /\ pc[d] = "posted" /\ op[d] # op[c]
        /\ wire[c] # wire[d]

====
